---------------------------- MODULE Spec2Model ----------------------------
(***************************************************************************)
(* The admin command layer of src/src/server/trpc/routers/admin.ts:        *)
(* seven tRPC procedures over an identity store (users, orgs, accounts,    *)
(* verifications, communityMembers) and an email dispatcher.               *)
(*                                                                         *)
(* A call is a process: it is started with a session and an input, runs    *)
(* the authorization check, and then takes one step per `await` of its     *)
(* handler.  Every awaited collaborator (store, hashing, email) may throw. *)
(* Spec runs the calls one after another; SpecConc interleaves them.       *)
(***************************************************************************)
EXTENDS Integers, FiniteSets, Sequences, TLC

VARIABLES users, orgs, accounts, verifications, communityMembers,
          loginEvents, sent, nextId, procs, pre, calls

vars == <<users, orgs, accounts, verifications, communityMembers,
          loginEvents, sent, nextId, procs, pre, calls>>

\* The store as one value (a snapshot of every table and of the outbox).
Store == [users |-> users, orgs |-> orgs, accounts |-> accounts,
          verifications |-> verifications,
          communityMembers |-> communityMembers,
          loginEvents |-> loginEvents, sent |-> sent]

----------------------------------------------------------------------------
\* Bounds of the model.

\* How many calls are made in one behaviour.
MaxCalls == 2

\* The worker slots: at most this many calls are in flight at once.
Procs == {1, 2}

\* The first identifier nanoid() hands out (the initial rows use smaller ones).
FirstId == 10

\* An identifier that no row ever has.
MissingId == 0

----------------------------------------------------------------------------
\* Values.

Null == [null |-> TRUE]

\* ctx.session: absent, or a user with an id and a role.
NoSession == [user |-> Null]
Session(id, role) == [user |-> [id |-> id, role |-> role]]
Sessions == {NoSession, Session(1, "admin"), Session(2, "admin"),
             Session(3, "user")}

Roles == {"admin", "user"}
Emails == {"a@x.com", "new@x.com"}
OrgNames == {"Acme", "Beta"}
UserNames == {"A"}
Passwords == {"password123"}

\* hashPassword: an opaque one-way function of the plaintext.
hashPassword(pw) ==
    CASE pw = "password123" -> "hash:password123"
      [] OTHER -> "hash:other"

\* JSON.stringify of the invitation payload.
JSONstringify(payload) == <<"json", payload.token, payload.orgId, payload.role>>

\* Time, in milliseconds.  new Date() reads the clock: a first read gives
\* Epoch, and a read that follows it gives the same instant or a later one.
HourMs == 60 * 60 * 1000
DayMs == 24 * HourMs
Epoch == DayMs
\* What the clock and the calendar do to inviteUser: `tick` milliseconds pass
\* between its two reads of the clock, and the server's UTC offset changes by
\* `offsetChange` over the seven days that follow (a daylight-saving change
\* of its time zone, or none).
Clocks == {[tick |-> 0, offsetChange |-> 0], [tick |-> 1, offsetChange |-> 0],
           [tick |-> 0, offsetChange |-> HourMs]}

\* d.setDate(d.getDate() + 7): the same local wall-clock time seven calendar
\* days later, which is 7 * 24 hours later but for a change of the offset.
setDatePlus7(t, offsetChange) == t + 7 * DayMs + offsetChange

\* new TRPCError({code, message}), and any other thrown value.
TRPCError(code, message) == [trpc |-> TRUE, code |-> code, message |-> message]
CollabError == [trpc |-> FALSE, code |-> "collaborator", message |-> "raw"]
NoError == [trpc |-> FALSE, code |-> "none", message |-> ""]

----------------------------------------------------------------------------
\* The collaborators.

\* db.query.<table>.findFirst({where}): some matching row, or undefined.
findFirst(rows) == IF rows = {} THEN {Null} ELSE rows

\* The where clauses of the handlers' queries and deletes.
\* The name check left out: no organization ever matches.
orgsByNameNone(name) == {}

\* where: eq(orgs.name, input.name)
orgsByName(name) == {o \in orgs : o.name = name}
\* The where clause left out: findFirst takes any organization.
orgsByIdNoWhere(id) == orgs

\* where: eq(orgs.id, input.orgId)
orgsById(id) == {o \in orgs : o.id = id}
\* The email check left out: no user ever matches.
usersByEmailNone(email) == {}

\* where: eq(users.email, input.email)
usersByEmail(email) == {u \in users : u.email = email}
\* The where clause left out: findFirst takes any user.
usersByIdNoWhere(id) == users

\* where: eq(users.id, input.userId)
usersById(id) == {u \in users : u.id = id}
\* A delete that removes nothing.
deleteByUserIdNothing(rows, userId) == rows

\* delete(rows).where(eq(rows.userId, input.userId)): the rows that stay.
deleteByUserId(rows, userId) == {r \in rows : r.userId # userId}
\* delete(users) with no where clause: no row stays.
deleteByIdNoWhere(rows, id) == {}
\* delete(users).where(eq(users.id, input.userId)): the rows that stay.
deleteById(rows, id) == {r \in rows : r.id # id}

\* db.query.users.findMany({with: {organization: true}}): every user joined
\* with the organization its orgId references (null when there is none).
findManyUsers ==
    {[user |-> u,
      organization |-> IF \E o \in orgs : o.id = u.orgId
                       THEN CHOOSE o \in orgs : o.id = u.orgId
                       ELSE Null] : u \in users}

\* A login event is [userId, created_at], created_at in seconds since the
\* epoch.  DATE("created_at"): the day the timestamp falls in.
DaySeconds == 24 * 60 * 60
DATE(created_at) == created_at \div DaySeconds

\* GROUP BY DATE("created_at"): the dates that have login events.
LoginDates == {DATE(e.created_at) : e \in loginEvents}

\* COUNT(*): the events of a date, a user counted once per login.
UniqueLoginsCountAll(d) ==
    Cardinality({x \in loginEvents : DATE(x.created_at) = d})

\* COUNT(DISTINCT "user_id") of the group of date d.
UniqueLogins(d) ==
    Cardinality({e.userId : e \in {x \in loginEvents : DATE(x.created_at) = d}})

\* ORDER BY date DESC: the dates of a set, newest first.
RECURSIVE DescDates(_)
DescDates(ds) ==
    IF ds = {} THEN <<>>
    ELSE LET m == CHOOSE d \in ds : \A e \in ds : e <= d
         IN  <<m>> \o DescDates(ds \ {m})

\* ORDER BY without the LIMIT: every date is returned.
LimitNone(seq, n) == seq

\* LIMIT 30
LoginLimit == 30
Limit(seq, n) == IF Len(seq) <= n THEN seq ELSE SubSeq(seq, 1, n)

\* SELECT DATE(created_at), COUNT(DISTINCT user_id) FROM login_events
\* GROUP BY DATE(created_at) ORDER BY date DESC LIMIT 30
loginsPerDayQuery ==
    LET ds == Limit(DescDates(LoginDates), LoginLimit)
    IN  [i \in 1..Len(ds) |-> [date |-> ds[i], unique_logins |-> UniqueLogins(ds[i])]]

----------------------------------------------------------------------------
\* A call: the procedure, its ctx.session and input, the place it has
\* reached, the handler's local variables, and what it returned or threw.

Idle == [pc |-> "idle", op |-> "none", session |-> NoSession, input |-> Null,
         org |-> Null, userId |-> MissingId, user |-> Null,
         hashedPassword |-> Null, inviteToken |-> MissingId,
         rowId |-> MissingId, now |-> 0, expiresAt |-> 0,
         error |-> NoError, result |-> "none", message |-> "", ret |-> Null]

InFlight(c) == c.pc \notin {"idle", "done"}

\* The call has ended: its local variables are gone.
Finish(c, error, result, message, ret) ==
    [Idle EXCEPT !.pc = "done", !.op = c.op, !.session = c.session,
                 !.input = c.input, !.error = error, !.result = result,
                 !.message = message, !.ret = ret]

\* return ret
Return(c, ret) == Finish(c, NoError, "OK", "", ret)

\* The handler ends by throwing `thrown` (a TRPCError) after `error` was
\* raised inside it.
Fail(c, error, thrown) == Finish(c, error, thrown.code, thrown.message, Null)

\* The check without the role comparison: any signed-in user passes.
IsAdminAnyUser(session) == session.user # Null

\* The check with the role comparison the wrong way round.
IsAdminInverted(session) == session.user # Null /\ session.user.role # "admin"

\* if (!ctx.session?.user || ctx.session.user.role !== 'admin')
IsAdmin(session) == session.user # Null /\ session.user.role = "admin"

\* The first statement of every handler, and the message it throws.
UnauthorizedMessage(op) ==
    CASE op = "getUsers" -> "Only admins can access user management"
      [] op = "getOrgs" -> "Only admins can access organization management"
      [] op = "createOrg" -> "Only admins can create organizations"
      [] op = "createUser" -> "Only admins can create users"
      [] op = "inviteUser" -> "Only admins can invite users"
      [] op = "removeUser" -> "Only admins can remove users"
      [] op = "getUniqueLoginsPerDay" -> "Only admins can access login stats"

\* The catch blocks: what each handler throws for an error raised in its try.
Internal(message) == TRPCError("INTERNAL_SERVER_ERROR", message)
getUsersCatch(error) == Internal("Failed to fetch users")
getOrgsCatch(error) == Internal("Failed to fetch organizations")
createOrgCatch(error) ==
    IF error.trpc THEN error ELSE Internal("Failed to create organization")
\* A catch block that reports every other error as a duplicate.
createUserCatchAsConflict(error) ==
    IF error.trpc THEN error
    ELSE TRPCError("CONFLICT", "A user with this email already exists")
createUserCatch(error) ==
    IF error.trpc THEN error ELSE Internal("Failed to create user")
\* A catch block of inviteUser that throws on whatever it caught.
inviteUserCatchRethrow(error) == error
inviteUserCatch(error) == Internal("Failed to send invitation")
\* A catch block that throws on whatever it caught.
removeUserCatchRethrow(error) == error
removeUserCatch(error) ==
    IF error.trpc THEN error ELSE Internal("Failed to remove user")
getUniqueLoginsPerDayCatch(error) ==
    Internal("Failed to fetch unique logins per day")

Ops == {"getUsers", "getOrgs", "createOrg", "createUser", "inviteUser",
        "removeUser", "getUniqueLoginsPerDay"}

\* The inputs a caller may send (zod has accepted them).  An orgId or userId
\* is one a row has, one a session has, or one no row has.
OrgIds == {o.id : o \in orgs} \cup {MissingId}
UserIds == {u.id : u \in users} \cup {1, 2, 3} \cup {MissingId}
Inputs(op) ==
    CASE op = "createOrg" -> [name : OrgNames]
      [] op = "createUser" -> [name : UserNames, email : Emails,
                               password : Passwords, role : Roles,
                               orgId : OrgIds]
      [] op = "inviteUser" -> [email : Emails, orgId : OrgIds, role : Roles]
      [] op = "removeUser" -> [userId : UserIds]
      [] OTHER -> {Null}

\* The first await of each handler.
Entry(op) ==
    CASE op = "getUsers" -> "getUsers:findMany"
      [] op = "getOrgs" -> "getOrgs:findMany"
      [] op = "createOrg" -> "createOrg:findFirst"
      [] op = "createUser" -> "createUser:findOrg"
      [] op = "inviteUser" -> "inviteUser:findOrg"
      [] op = "removeUser" -> "removeUser:findUser"
      [] op = "getUniqueLoginsPerDay" -> "getUniqueLoginsPerDay:execute"

\* nanoid(): an identifier never handed out before.
\* An id generator that hands out the same identifier every time.
nanoidRepeats == FirstId
nanoid == nextId

----------------------------------------------------------------------------
\* Init: one organization, two admins and one plain user, each with a
\* credential account and a community membership; no invitation, no email.

InitUser(id, email, role) ==
    [id |-> id, name |-> "A", email |-> email, emailVerified |-> TRUE,
     orgId |-> 4, role |-> role]
InitAccount(id, userId) ==
    [id |-> id, userId |-> userId, providerId |-> "credential",
     accountId |-> userId, password |-> hashPassword("password123")]

\* The login_events table after n days on which somebody logged in, one
\* such day every `gap` days: user 1 logs in twice a day (at 00:00 and at
\* 23:00), user 2 at noon every second day, user 3 at noon every third day.
MaxDays == 32
Gaps == {1, 2}
LoginUsers == {1, 2, 3}
LoginHours == {0, 12, 23}
LoginLog(n, gap) ==
    {[userId |-> x[2],
      created_at |-> x[1] * gap * DaySeconds + x[3] * 60 * 60] :
        x \in {y \in (1..n) \X LoginUsers \X LoginHours :
                 /\ y[1] % y[2] = 0
                 /\ y[3] = 12 <=> y[2] # 1}}
LoginLogs == {LoginLog(n, gap) : n \in 0..MaxDays, gap \in Gaps}

\* The store but for the login events, and no call made yet.
InitStore ==
    /\ orgs = {[id |-> 4, name |-> "Acme"]}
    /\ users = {InitUser(1, "a@x.com", "admin"), InitUser(2, "b@x.com", "admin"),
                InitUser(3, "c@x.com", "user")}
    /\ accounts = {InitAccount(5, 1), InitAccount(6, 2), InitAccount(7, 3)}
    /\ communityMembers = {[userId |-> 1, communityId |-> 1],
                           [userId |-> 2, communityId |-> 1],
                           [userId |-> 3, communityId |-> 1],
                           [userId |-> 3, communityId |-> 2]}
    /\ verifications = {}
    /\ sent = {}
    /\ nextId = FirstId
    /\ procs = [p \in Procs |-> Idle]
    /\ pre = Store
    /\ calls = 0

Init ==
    /\ loginEvents = LoginLog(3, 1)
    /\ InitStore

\* Any of the login logs.
InitLogins ==
    /\ loginEvents \in LoginLogs
    /\ InitStore

----------------------------------------------------------------------------
\* Starting a call.  The authorization check is the handler's first
\* statement: without an admin session the call ends here.

CallFrom(p, callers) ==
    /\ ~InFlight(procs[p])
    /\ \E caller \in callers :
         \E input \in Inputs(caller.op) :
           LET c == [Idle EXCEPT !.op = caller.op, !.session = caller.session,
                                 !.input = input, !.pc = Entry(caller.op)]
           IN  IF ~IsAdmin(caller.session)
               THEN procs' = [procs EXCEPT ![p] =
                        Fail(c, NoError,
                             TRPCError("UNAUTHORIZED",
                                       UnauthorizedMessage(caller.op)))]
               ELSE procs' = [procs EXCEPT ![p] = c]
    /\ calls < MaxCalls
    /\ calls' = calls + 1
    /\ UNCHANGED <<users, orgs, accounts, verifications, communityMembers,
                   loginEvents, sent, nextId>>

\* Any caller may call any procedure.
Callers == [session : Sessions, op : Ops]
Call(p) == CallFrom(p, Callers)

At(p, pc) == procs[p].pc = pc

\* An awaited collaborator rejects: the handler's catch block decides what
\* the call throws.
Throws(p, thrown) ==
    procs' = [procs EXCEPT ![p] = Fail(procs[p], CollabError, thrown)]

\* The handler throws a TRPCError of its own inside the try block.
Raises(p, error, thrown) ==
    procs' = [procs EXCEPT ![p] = Fail(procs[p], error, thrown)]

----------------------------------------------------------------------------
\* getUsers (lines 14-37)

GetUsers(p) ==
    /\ At(p, "getUsers:findMany")
    /\ \/ Throws(p, getUsersCatch(CollabError))
       \/ procs' = [procs EXCEPT ![p] = Return(procs[p], findManyUsers)]
    /\ UNCHANGED <<users, orgs, accounts, verifications, communityMembers,
                   loginEvents, sent, nextId, pre, calls>>

\* getOrgs (lines 40-58)

GetOrgs(p) ==
    /\ At(p, "getOrgs:findMany")
    /\ \/ Throws(p, getOrgsCatch(CollabError))
       \/ procs' = [procs EXCEPT ![p] = Return(procs[p], orgs)]
    /\ UNCHANGED <<users, orgs, accounts, verifications, communityMembers,
                   loginEvents, sent, nextId, pre, calls>>

\* getUniqueLoginsPerDay (lines 344-367)

GetUniqueLoginsPerDay(p) ==
    /\ At(p, "getUniqueLoginsPerDay:execute")
    /\ \/ Throws(p, getUniqueLoginsPerDayCatch(CollabError))
       \/ procs' = [procs EXCEPT ![p] = Return(procs[p], loginsPerDayQuery)]
    /\ UNCHANGED <<users, orgs, accounts, verifications, communityMembers,
                   loginEvents, sent, nextId, pre, calls>>

----------------------------------------------------------------------------
\* createOrg (lines 61-107)

\* existingOrg = findFirst(orgs.name = input.name); CONFLICT if there is
\* one, else orgId = nanoid().
CreateOrgFindFirst(p) ==
    /\ At(p, "createOrg:findFirst")
    /\ \/ Throws(p, createOrgCatch(CollabError)) /\ UNCHANGED nextId
       \/ \E existingOrg \in findFirst(orgsByName(procs[p].input.name)) :
            IF existingOrg # Null
            THEN LET error == TRPCError("CONFLICT",
                                 "An organization with this name already exists")
                 IN  Raises(p, error, createOrgCatch(error)) /\ UNCHANGED nextId
            ELSE /\ procs' = [procs EXCEPT ![p].pc = "createOrg:insert",
                                           ![p].org = [id |-> nanoid,
                                                       name |-> procs[p].input.name]]
                 /\ nextId' = nextId + 1
    /\ UNCHANGED <<users, orgs, accounts, verifications, communityMembers,
                   loginEvents, sent, pre, calls>>

\* The insert writing the table anew: the rows it held are gone.
insertOrgsOverwrite(row) == {row}

\* insert(orgs).values(row): the table with the row added.
insertOrgs(row) == orgs \cup {row}

\* [newOrg] = insert(orgs).values({id: orgId, name}).returning()
CreateOrgInsert(p) ==
    /\ At(p, "createOrg:insert")
    /\ \/ Throws(p, createOrgCatch(CollabError)) /\ UNCHANGED orgs
       \/ /\ orgs' = insertOrgs(procs[p].org)
          /\ procs' = [procs EXCEPT ![p] = Return(procs[p], procs[p].org)]
    /\ UNCHANGED <<users, accounts, verifications, communityMembers,
                   loginEvents, sent, nextId, pre, calls>>

----------------------------------------------------------------------------
\* createUser (lines 110-195)

\* org = findFirst(orgs.id = input.orgId); NOT_FOUND if there is none.
CreateUserFindOrg(p) ==
    /\ At(p, "createUser:findOrg")
    /\ \/ Throws(p, createUserCatch(CollabError))
       \/ \E org \in findFirst(orgsById(procs[p].input.orgId)) :
            IF org = Null
            THEN LET error == TRPCError("NOT_FOUND", "Organization not found")
                 IN  Raises(p, error, createUserCatch(error))
            ELSE procs' = [procs EXCEPT ![p].pc = "createUser:findUser",
                                        ![p].org = org]
    /\ UNCHANGED <<users, orgs, accounts, verifications, communityMembers,
                   loginEvents, sent, nextId, pre, calls>>

\* existingUser = findFirst(users.email = input.email); CONFLICT if there is
\* one, else userId = nanoid().
CreateUserFindUser(p) ==
    /\ At(p, "createUser:findUser")
    /\ \/ Throws(p, createUserCatch(CollabError)) /\ UNCHANGED nextId
       \/ \E existingUser \in findFirst(usersByEmail(procs[p].input.email)) :
            IF existingUser # Null
            THEN LET error == TRPCError("CONFLICT",
                                        "A user with this email already exists")
                 IN  Raises(p, error, createUserCatch(error)) /\ UNCHANGED nextId
            ELSE /\ procs' = [procs EXCEPT ![p].pc = "createUser:hash",
                                           ![p].userId = nanoid]
                 /\ nextId' = nextId + 1
    /\ UNCHANGED <<users, orgs, accounts, verifications, communityMembers,
                   loginEvents, sent, pre, calls>>

\* hashedPassword = await hashPassword(input.password)
CreateUserHash(p) ==
    /\ At(p, "createUser:hash")
    /\ \/ Throws(p, createUserCatch(CollabError))
       \/ procs' = [procs EXCEPT ![p].pc = "createUser:insertUser",
                                 ![p].hashedPassword =
                                     hashPassword(procs[p].input.password)]
    /\ UNCHANGED <<users, orgs, accounts, verifications, communityMembers,
                   loginEvents, sent, nextId, pre, calls>>

\* The row of insert(users).values({...}) (lines 163-172).
NewUser(c) ==
    [id |-> c.userId, name |-> c.input.name, email |-> c.input.email,
     emailVerified |-> TRUE, orgId |-> c.input.orgId, role |-> c.input.role]

\* [user] = insert(users).values(...).returning(); then the id of the
\* account row is drawn.
CreateUserInsertUser(p) ==
    /\ At(p, "createUser:insertUser")
    /\ \/ Throws(p, createUserCatch(CollabError)) /\ UNCHANGED <<users, nextId>>
       \/ /\ users' = users \cup {NewUser(procs[p])}
          /\ procs' = [procs EXCEPT ![p].pc = "createUser:insertAccount",
                                    ![p].user = NewUser(procs[p]),
                                    ![p].rowId = nanoid]
          /\ nextId' = nextId + 1
    /\ UNCHANGED <<orgs, accounts, verifications, communityMembers,
                   loginEvents, sent, pre, calls>>

\* The account row attached to the calling admin, not to the new user.
NewAccountOfCaller(c) ==
    [id |-> c.rowId, userId |-> c.session.user.id, providerId |-> "credential",
     accountId |-> c.userId, password |-> c.hashedPassword]

\* The account row with the password stored as given, not hashed.
NewAccountPlaintext(c) ==
    [id |-> c.rowId, userId |-> c.userId, providerId |-> "credential",
     accountId |-> c.userId, password |-> c.input.password]

\* The row of insert(accounts).values({...}) (lines 176-184).
NewAccount(c) ==
    [id |-> c.rowId, userId |-> c.userId, providerId |-> "credential",
     accountId |-> c.userId, password |-> c.hashedPassword]

\* insert(accounts).values(...); return user
CreateUserInsertAccount(p) ==
    /\ At(p, "createUser:insertAccount")
    /\ \/ Throws(p, createUserCatch(CollabError)) /\ UNCHANGED accounts
       \/ /\ accounts' = accounts \cup {NewAccount(procs[p])}
          /\ procs' = [procs EXCEPT ![p] = Return(procs[p], procs[p].user)]
    /\ UNCHANGED <<users, orgs, verifications, communityMembers,
                   loginEvents, sent, nextId, pre, calls>>

----------------------------------------------------------------------------
\* inviteUser (lines 198-281)

InviteUserFindOrg(p) ==
    /\ At(p, "inviteUser:findOrg")
    /\ \/ Throws(p, inviteUserCatch(CollabError))
       \/ \E org \in findFirst(orgsById(procs[p].input.orgId)) :
            IF org = Null
            THEN LET error == TRPCError("NOT_FOUND", "Organization not found")
                 IN  Raises(p, error, inviteUserCatch(error))
            ELSE procs' = [procs EXCEPT ![p].pc = "inviteUser:findUser",
                                        ![p].org = org]
    /\ UNCHANGED <<users, orgs, accounts, verifications, communityMembers,
                   loginEvents, sent, nextId, pre, calls>>

\* existingUser = findFirst(users.email = input.email); CONFLICT if there is
\* one, else inviteToken = nanoid(32), now = new Date(), expiresAt =
\* new Date() moved on by seven days, and the row's id = nanoid().
InviteUserFindUser(p) ==
    /\ At(p, "inviteUser:findUser")
    /\ \/ Throws(p, inviteUserCatch(CollabError)) /\ UNCHANGED nextId
       \/ \E existingUser \in findFirst(usersByEmail(procs[p].input.email)) :
            IF existingUser # Null
            THEN LET error == TRPCError("CONFLICT",
                                        "A user with this email already exists")
                 IN  Raises(p, error, inviteUserCatch(error)) /\ UNCHANGED nextId
            ELSE /\ \E clock \in Clocks :
                      procs' = [procs EXCEPT
                          ![p].pc = "inviteUser:insert",
                          ![p].inviteToken = nanoid,
                          ![p].now = Epoch,
                          ![p].expiresAt = setDatePlus7(Epoch + clock.tick, clock.offsetChange),
                          ![p].rowId = nanoid + 1]
                 /\ nextId' = nextId + 2
    /\ UNCHANGED <<users, orgs, accounts, verifications, communityMembers,
                   loginEvents, sent, pre, calls>>

\* The invitation row with the role of the payload fixed to 'user'.
NewVerificationRoleUser(c) ==
    [id |-> c.rowId, identifier |-> c.input.email,
     value |-> JSONstringify([token |-> c.inviteToken, orgId |-> c.input.orgId,
                              role |-> "user"]),
     expiresAt |-> c.expiresAt, createdAt |-> c.now, updatedAt |-> c.now]

\* The row of insert(verifications).values({...}) (lines 246-257).
NewVerification(c) ==
    [id |-> c.rowId, identifier |-> c.input.email,
     value |-> JSONstringify([token |-> c.inviteToken, orgId |-> c.input.orgId,
                              role |-> c.input.role]),
     expiresAt |-> c.expiresAt, createdAt |-> c.now, updatedAt |-> c.now]

InviteUserInsert(p) ==
    /\ At(p, "inviteUser:insert")
    /\ \/ Throws(p, inviteUserCatch(CollabError)) /\ UNCHANGED verifications
       \/ /\ verifications' = verifications \cup {NewVerification(procs[p])}
          /\ procs' = [procs EXCEPT ![p].pc = "inviteUser:sendEmail"]
    /\ UNCHANGED <<users, orgs, accounts, communityMembers,
                   loginEvents, sent, nextId, pre, calls>>

\* The message of sendEmail({to, subject, html}) (lines 260-271): the html
\* holds the organization's name and the invite URL (token and email).
InviteEmail(c) ==
    [to |-> c.input.email, subject |-> <<"Invitation to join", c.org.name>>,
     html |-> <<c.org.name, "/auth/register", c.inviteToken, c.input.email>>]

InviteUserSendEmail(p) ==
    /\ At(p, "inviteUser:sendEmail")
    /\ \/ Throws(p, inviteUserCatch(CollabError)) /\ UNCHANGED sent
       \/ /\ sent' = sent \cup {InviteEmail(procs[p])}
          /\ procs' = [procs EXCEPT ![p] =
                 Return(procs[p], [success |-> TRUE,
                                   email |-> procs[p].input.email])]
    /\ UNCHANGED <<users, orgs, accounts, verifications, communityMembers,
                   loginEvents, nextId, pre, calls>>

----------------------------------------------------------------------------
\* removeUser (lines 284-341)

\* The self-removal check left out.
IsSelfNever(user, session) == FALSE

\* if (user.id === ctx.session.user.id)
IsSelf(user, session) == user.id = session.user.id

\* user = findFirst(users.id = input.userId); NOT_FOUND if there is none,
\* FORBIDDEN if it is the caller.
RemoveUserFindUser(p) ==
    /\ At(p, "removeUser:findUser")
    /\ \/ Throws(p, removeUserCatch(CollabError))
       \/ \E user \in findFirst(usersById(procs[p].input.userId)) :
            IF user = Null
            THEN LET error == TRPCError("NOT_FOUND", "User not found")
                 IN  Raises(p, error, removeUserCatch(error))
            ELSE IF IsSelf(user, procs[p].session)
            THEN LET error == TRPCError("FORBIDDEN", "You cannot remove yourself")
                 IN  Raises(p, error, removeUserCatch(error))
            ELSE procs' = [procs EXCEPT ![p].pc = "removeUser:deleteMembers",
                                        ![p].user = user]
    /\ UNCHANGED <<users, orgs, accounts, verifications, communityMembers,
                   loginEvents, sent, nextId, pre, calls>>

\* delete(communityMembers).where(userId = input.userId)
RemoveUserDeleteMembers(p) ==
    /\ At(p, "removeUser:deleteMembers")
    /\ \/ Throws(p, removeUserCatch(CollabError)) /\ UNCHANGED communityMembers
       \/ /\ communityMembers' =
                deleteByUserId(communityMembers, procs[p].input.userId)
          /\ procs' = [procs EXCEPT ![p].pc = "removeUser:deleteAccounts"]
    /\ UNCHANGED <<users, orgs, accounts, verifications,
                   loginEvents, sent, nextId, pre, calls>>

\* delete(accounts).where(userId = input.userId)
RemoveUserDeleteAccounts(p) ==
    /\ At(p, "removeUser:deleteAccounts")
    /\ \/ Throws(p, removeUserCatch(CollabError)) /\ UNCHANGED accounts
       \/ /\ accounts' = deleteByUserId(accounts, procs[p].input.userId)
          /\ procs' = [procs EXCEPT ![p].pc = "removeUser:deleteUser"]
    /\ UNCHANGED <<users, orgs, verifications, communityMembers,
                   loginEvents, sent, nextId, pre, calls>>

\* delete(users).where(id = input.userId); return {success: true}
RemoveUserDeleteUser(p) ==
    /\ At(p, "removeUser:deleteUser")
    /\ \/ Throws(p, removeUserCatch(CollabError)) /\ UNCHANGED users
       \/ /\ users' = deleteById(users, procs[p].input.userId)
          /\ procs' = [procs EXCEPT ![p] = Return(procs[p], [success |-> TRUE])]
    /\ UNCHANGED <<orgs, accounts, verifications, communityMembers,
                   loginEvents, sent, nextId, pre, calls>>

----------------------------------------------------------------------------
\* The specifications.

\* One step of a query in slot p.
ReadStep(p) ==
    \/ GetUsers(p)
    \/ GetOrgs(p)
    \/ GetUniqueLoginsPerDay(p)

\* One step of a mutation in slot p.
WriteStep(p) ==
    \/ CreateOrgFindFirst(p)
    \/ CreateOrgInsert(p)
    \/ CreateUserFindOrg(p)
    \/ CreateUserFindUser(p)
    \/ CreateUserHash(p)
    \/ CreateUserInsertUser(p)
    \/ CreateUserInsertAccount(p)
    \/ InviteUserFindOrg(p)
    \/ InviteUserFindUser(p)
    \/ InviteUserInsert(p)
    \/ InviteUserSendEmail(p)
    \/ RemoveUserFindUser(p)
    \/ RemoveUserDeleteMembers(p)
    \/ RemoveUserDeleteAccounts(p)
    \/ RemoveUserDeleteUser(p)

\* One step of the call in slot p.
Step(p) == ReadStep(p) \/ WriteStep(p)

\* Calls made one after another: a call starts when none is in flight, and
\* `pre` keeps the store as the call found it.
CallSeq ==
    /\ \A q \in Procs : ~InFlight(procs[q])
    /\ Call(1)
    /\ pre' = Store

NextSeq == CallSeq \/ Step(1)

Spec == Init /\ [][NextSeq]_vars

\* The login report called time after time over any of the login logs.
LoginCallers == [session : Sessions, op : {"getUniqueLoginsPerDay"}]
CallLogins ==
    /\ \A q \in Procs : ~InFlight(procs[q])
    /\ CallFrom(1, LoginCallers)
    /\ pre' = Store

NextLogins == CallLogins \/ GetUniqueLoginsPerDay(1)

SpecLogins == InitLogins /\ [][NextLogins]_vars

\* The mutations interleaved at their awaits.  A call takes the first free
\* slot.  The callers are the admins: a call of another caller ends at its
\* first statement, in one step that reads and writes nothing, and so do the
\* steps of the three queries as far as the store goes.  Only removeUser
\* reads the caller's id, so the second admin calls nothing else.
AdminSessions == {Session(1, "admin"), Session(2, "admin")}
WriteOps == {"createOrg", "createUser", "inviteUser", "removeUser"}
ConcCallers ==
    {c \in [session : AdminSessions, op : WriteOps] :
        c.session = Session(2, "admin") => c.op = "removeUser"}
CallConc(p) ==
    /\ \A q \in Procs : q < p => InFlight(procs[q])
    /\ CallFrom(p, ConcCallers)
    /\ UNCHANGED pre

Next == \E p \in Procs : CallConc(p) \/ WriteStep(p)

SpecConc == Init /\ [][Next]_vars

----------------------------------------------------------------------------
\* The claims.  In Spec the calls run one after another in slot 1, and
\* `pre` is the store as the call found it.

cur == procs[1]
Ended(op) == cur.pc = "done" /\ cur.op = op
\* The caller of c has a session whose role is 'admin'.
AdminCaller(c) == c.session # NoSession /\ c.session.user.role = "admin"
\* No awaited collaborator rejected during the call.
NoCollabFailure == cur.error.code # "collaborator"

\* C1: a call of any procedure by a caller with no session or with a role
\* other than 'admin' fails with UNAUTHORIZED and leaves every table and the
\* set of dispatched emails as it found them.
C1_UnauthorizedNoMutation ==
    (cur.pc = "done" /\ ~AdminCaller(cur))
        => /\ cur.result = "UNAUTHORIZED"
           /\ Store = pre

\* Reached: a plain user's createUser, valid in every other respect, after
\* another call has changed the store.
C1_Witness ==
    /\ Ended("createUser") /\ cur.session = Session(3, "user")
    /\ cur.input.email = "new@x.com" /\ cur.input.orgId = 4
    /\ cur.result = "UNAUTHORIZED"
    /\ calls = 2 /\ Cardinality(users) = 2

\* The request would fail another check of its handler in the store `st`.
OtherwiseWrong(c, st) ==
    \/ c.op \in {"createUser", "inviteUser"}
         /\ \/ ~\E o \in st.orgs : o.id = c.input.orgId
            \/ \E u \in st.users : u.email = c.input.email
    \/ c.op = "createOrg" /\ \E o \in st.orgs : o.name = c.input.name
    \/ c.op = "removeUser"
         /\ \/ ~\E u \in st.users : u.id = c.input.userId
            \/ c.session.user # Null /\ c.input.userId = c.session.user.id

\* C2: the authorization check comes first: a call by a non-admin never
\* reaches an await (so no collaborator can fail in it), and when its
\* request is wrong in another way too (missing organization, duplicate
\* email or name, unknown target, target = caller) it still ends
\* UNAUTHORIZED, with the handler's own message and no error caught.
C2_AuthorizationFirst ==
    \A p \in Procs :
        ~AdminCaller(procs[p]) =>
            /\ ~InFlight(procs[p])
            /\ (procs[p].pc = "done" /\ OtherwiseWrong(procs[p], pre)) =>
                   /\ procs[p].result \notin {"NOT_FOUND", "CONFLICT", "FORBIDDEN",
                                              "INTERNAL_SERVER_ERROR", "OK"}
                   /\ procs[p].error = NoError
                   /\ procs[p].message = UnauthorizedMessage(procs[p].op)

\* Reached: a plain user asks to remove itself.
C2_Witness ==
    /\ Ended("removeUser") /\ cur.session = Session(3, "user")
    /\ cur.input.userId = 3
    /\ OtherwiseWrong(cur, pre)
    /\ cur.result = "UNAUTHORIZED"

\* C3: createOrg by an admin with a name an organization already has (an
\* earlier createOrg has inserted it) fails with CONFLICT, and the store
\* holds exactly one organization of that name.
C3_CreateOrgTwiceConflict ==
    (/\ Ended("createOrg") /\ AdminCaller(cur) /\ NoCollabFailure
     /\ \E o \in pre.orgs : o.name = cur.input.name)
        => /\ cur.result = "CONFLICT"
           /\ Cardinality({o \in orgs : o.name = cur.input.name}) = 1

\* Reached: the second createOrg("Beta"), the first having inserted it.
C3_Witness ==
    /\ Ended("createOrg") /\ cur.input.name = "Beta"
    /\ cur.result = "CONFLICT"
    /\ \E o \in pre.orgs : o.name = "Beta" /\ o.id >= FirstId

\* C4: createUser by an admin with an orgId no organization has fails with
\* NOT_FOUND, and inserts no user row and no account row.
C4_CreateUserMissingOrg ==
    (/\ Ended("createUser") /\ AdminCaller(cur) /\ NoCollabFailure
     /\ ~\E o \in pre.orgs : o.id = cur.input.orgId)
        => /\ cur.result = "NOT_FOUND"
           /\ users = pre.users
           /\ accounts = pre.accounts

\* Reached: createUser with an unused email and the missing orgId.
C4_Witness ==
    /\ Ended("createUser") /\ AdminCaller(cur)
    /\ cur.input.orgId = MissingId /\ cur.input.email = "new@x.com"
    /\ cur.result = "NOT_FOUND"

\* The credential accounts of user id in the table `accts`.
CredentialsOf(accts, id) ==
    {a \in accts : a.userId = id /\ a.providerId = "credential"}

\* C5: once createUser has succeeded for an email (the store holds the user
\* row with its one credential account), createUser by an admin with the
\* same email and an existing organization fails with CONFLICT, and the
\* store holds exactly one user row of that email and exactly one
\* credential account of that user.
C5_CreateUserTwiceConflict ==
    (/\ Ended("createUser") /\ AdminCaller(cur) /\ NoCollabFailure
     /\ \E o \in pre.orgs : o.id = cur.input.orgId
     /\ \E u \in pre.users : /\ u.email = cur.input.email
                             /\ Cardinality(CredentialsOf(pre.accounts, u.id)) = 1)
        => /\ cur.result = "CONFLICT"
           /\ Cardinality({u \in users : u.email = cur.input.email}) = 1
           /\ \A u \in users :
                  u.email = cur.input.email =>
                      Cardinality(CredentialsOf(accounts, u.id)) = 1

\* Reached: the second createUser("new@x.com"), the first having inserted
\* the user row (with an identifier of nanoid) and its account.
C5_Witness ==
    /\ Ended("createUser") /\ cur.input.email = "new@x.com"
    /\ cur.input.orgId = 4
    /\ cur.result = "CONFLICT"
    /\ \E u \in pre.users : /\ u.email = "new@x.com" /\ u.id >= FirstId
                            /\ Cardinality(CredentialsOf(pre.accounts, u.id)) = 1

\* C6: a successful createUser adds exactly one user row, with an
\* identifier no user had, the given name, email, role and orgId and
\* emailVerified = true, and exactly one account row, whose userId and
\* accountId are the new user's id, whose provider is 'credential' and whose
\* password is the hash of the given password; it returns the user row.
C6_CreateUserSuccess ==
    (Ended("createUser") /\ cur.result = "OK")
        => LET user == cur.ret
           IN  /\ user \notin pre.users
               /\ users = pre.users \cup {user}
               /\ ~\E u \in pre.users : u.id = user.id
               /\ user.name = cur.input.name
               /\ user.email = cur.input.email
               /\ user.role = cur.input.role
               /\ user.orgId = cur.input.orgId
               /\ user.emailVerified = TRUE
               /\ pre.accounts \subseteq accounts
               /\ Cardinality(accounts \ pre.accounts) = 1
               /\ \A a \in accounts \ pre.accounts :
                      /\ a.userId = user.id
                      /\ a.accountId = user.id
                      /\ a.providerId = "credential"
                      /\ a.password = hashPassword(cur.input.password)

\* Reached: createUser of an admin returned.
C6_Witness ==
    /\ Ended("createUser") /\ cur.result = "OK"
    /\ cur.input.role = "admin" /\ cur.ret.role = "admin"
    /\ Cardinality(users) = 4 /\ Cardinality(accounts) = 4

\* The call is removeUser by an admin whose input.userId is its own id.
SelfRemoval ==
    /\ Ended("removeUser") /\ AdminCaller(cur)
    /\ cur.input.userId = cur.session.user.id

\* C7 as stated: removeUser of the caller's own id fails with FORBIDDEN
\* whatever the store holds, and deletes nothing.
C7_SelfRemovalAlwaysForbidden ==
    (SelfRemoval /\ NoCollabFailure)
        => /\ cur.result = "FORBIDDEN"
           /\ Store = pre

\* C7 as the code has it: the existence check runs first.  removeUser of
\* the caller's own id deletes nothing; it fails with FORBIDDEN when a user
\* row of that id exists, with NOT_FOUND when none does, and with
\* INTERNAL_SERVER_ERROR when the lookup itself fails.
C7_SelfRemovalRefused ==
    SelfRemoval
        => /\ Store = pre
           /\ cur.result =
                IF ~NoCollabFailure THEN "INTERNAL_SERVER_ERROR"
                ELSE IF \E u \in pre.users : u.id = cur.input.userId
                     THEN "FORBIDDEN"
                     ELSE "NOT_FOUND"

\* Reached: an admin whose row is in the store asks to remove itself.
C7_Witness ==
    /\ SelfRemoval /\ cur.result = "FORBIDDEN"
    /\ \E u \in users : u.id = cur.session.user.id

\* C8: after a successful removeUser(u) by an admin, the store holds no
\* user row of id u, no account of userId u and no membership of userId u
\* (u had a row and is not the caller); and getUsers lists exactly the user
\* rows of the store, so it does not list an id that has no row.
C8_RemoveUserCascade ==
    /\ (Ended("removeUser") /\ cur.result = "OK")
          => /\ \E u \in pre.users : u.id = cur.input.userId
             /\ cur.input.userId # cur.session.user.id
             /\ ~\E u \in users : u.id = cur.input.userId
             /\ ~\E a \in accounts : a.userId = cur.input.userId
             /\ ~\E m \in communityMembers : m.userId = cur.input.userId
    /\ (Ended("getUsers") /\ cur.result = "OK")
          => /\ {r.user : r \in cur.ret} = pre.users
             /\ \A id \in {1, 2, 3} :
                    (~\E u \in pre.users : u.id = id)
                        => ~\E r \in cur.ret : r.user.id = id

\* Reached: getUsers after removeUser(3) has deleted user 3 and its rows.
C8_Witness ==
    /\ Ended("getUsers") /\ cur.result = "OK" /\ calls = 2
    /\ ~\E u \in pre.users : u.id = 3
    /\ ~\E a \in pre.accounts : a.userId = 3
    /\ ~\E m \in pre.communityMembers : m.userId = 3
    /\ ~\E r \in cur.ret : r.user.id = 3
    /\ Cardinality(cur.ret) = 2

\* C9: removeUser by an admin with a userId no user row has fails with
\* NOT_FOUND and deletes no membership, account or user row.
C9_RemoveUserNotFound ==
    (/\ Ended("removeUser") /\ AdminCaller(cur) /\ NoCollabFailure
     /\ ~\E u \in pre.users : u.id = cur.input.userId)
        => /\ cur.result = "NOT_FOUND"
           /\ communityMembers = pre.communityMembers
           /\ accounts = pre.accounts
           /\ users = pre.users

\* Reached: removeUser of an id that never had a row.
C9_Witness ==
    /\ Ended("removeUser") /\ AdminCaller(cur)
    /\ cur.input.userId = MissingId
    /\ cur.result = "NOT_FOUND"

\* C10: inviteUser by an admin with an orgId no organization has fails with
\* NOT_FOUND, persists no invitation and dispatches no email.
C10_InviteMissingOrgNotFound ==
    (/\ Ended("inviteUser") /\ AdminCaller(cur) /\ NoCollabFailure
     /\ ~\E o \in pre.orgs : o.id = cur.input.orgId)
        => /\ cur.result = "NOT_FOUND"
           /\ verifications = pre.verifications
           /\ sent = pre.sent

\* C11: inviteUser by an admin with an existing organization and an email a
\* user already has fails with CONFLICT, persists no invitation and
\* dispatches no email.
C11_InviteExistingEmailConflict ==
    (/\ Ended("inviteUser") /\ AdminCaller(cur) /\ NoCollabFailure
     /\ \E o \in pre.orgs : o.id = cur.input.orgId
     /\ \E u \in pre.users : u.email = cur.input.email)
        => /\ cur.result = "CONFLICT"
           /\ verifications = pre.verifications
           /\ sent = pre.sent

\* C12: a successful inviteUser persists exactly one new invitation, whose
\* identifier is the email and whose payload holds the generated token, the
\* orgId and the role, dispatches exactly one new email, addressed to that
\* email and carrying that token, and returns {success: true, email}; and
\* when the call awaits sendEmail the invitation is already in the store
\* and no email of this call has been dispatched.
C12_InviteSuccess ==
    /\ (Ended("inviteUser") /\ cur.result = "OK")
          => /\ cur.ret = [success |-> TRUE, email |-> cur.input.email]
             /\ pre.verifications \subseteq verifications
             /\ pre.sent \subseteq sent
             /\ Cardinality(verifications \ pre.verifications) = 1
             /\ Cardinality(sent \ pre.sent) = 1
             /\ \A v \in verifications \ pre.verifications :
                  \A m \in sent \ pre.sent :
                      /\ v.identifier = cur.input.email
                      /\ m.to = cur.input.email
                      /\ m.html[3] >= FirstId
                      /\ v.value = JSONstringify([token |-> m.html[3],
                                                  orgId |-> cur.input.orgId,
                                                  role |-> cur.input.role])
    /\ cur.pc = "inviteUser:sendEmail"
          => /\ Cardinality(verifications \ pre.verifications) = 1
             /\ \A v \in verifications \ pre.verifications :
                    v.identifier = cur.input.email
             /\ sent = pre.sent

\* Reached: an invitation of an admin role for an unused email returned.
C12_Witness ==
    /\ Ended("inviteUser") /\ cur.result = "OK"
    /\ cur.input.email = "new@x.com" /\ cur.input.role = "admin"
    /\ Cardinality(verifications) = 1 /\ Cardinality(sent) = 1

\* C13: every invitation row has an expiresAt exactly seven days (7 * 24
\* hours) after its createdAt.
C13_ExpiryExactlySevenDays ==
    \A v \in verifications : v.expiresAt = v.createdAt + 7 * DayMs

\* C14: a call that ends NOT_FOUND, CONFLICT, FORBIDDEN or UNAUTHORIZED has
\* changed nothing: every table and the set of dispatched emails are as the
\* call found them.
C14_TypedFailureNoMutation ==
    (cur.pc = "done"
     /\ cur.result \in {"NOT_FOUND", "CONFLICT", "FORBIDDEN", "UNAUTHORIZED"})
        => Store = pre

\* Reached: a createUser that ended CONFLICT after an earlier call had
\* inserted the user.
C14_Witness ==
    /\ Ended("createUser") /\ cur.result = "CONFLICT"
    /\ cur.input.email = "new@x.com"
    /\ Cardinality(users) = 4 /\ Store = pre

\* C15: under any interleaving of createUser calls by admins, two concurrent
\* calls with the same email included, no two user rows have the same email.
C15_UniqueEmails ==
    \A u \in users, v \in users : u.email = v.email => u = v

\* C16: under any interleaving of createOrg calls by admins, two concurrent
\* calls with the same name included, no two organization rows have the same
\* name.
C16_UniqueOrgNames ==
    \A o \in orgs, n \in orgs : o.name = n.name => o = n

\* C17: under any interleaving of createUser and removeUser calls, each user
\* id has at most one account row with providerId 'credential'.
C17_OneCredentialAccount ==
    \A a \in accounts, b \in accounts :
        (/\ a.userId = b.userId
         /\ a.providerId = "credential" /\ b.providerId = "credential")
            => a = b

\* Reached: createUser has returned a user that a concurrent removeUser has
\* deleted between the two inserts; the user id keeps its one account.
C17_Witness ==
    \E p \in Procs, q \in Procs :
        /\ procs[p].op = "createUser" /\ procs[p].pc = "done"
        /\ procs[p].result = "OK"
        /\ procs[q].op = "removeUser" /\ procs[q].pc = "done"
        /\ procs[q].result = "OK"
        /\ procs[q].input.userId = procs[p].ret.id
        /\ ~\E u \in users : u.id = procs[p].ret.id
        /\ Cardinality(CredentialsOf(accounts, procs[p].ret.id)) = 1

\* C18: organizations are never updated or deleted: every step of every
\* handler keeps each organization row as it was, and a step that changes
\* the set of organizations is the insert of createOrg adding the row that
\* createOrg returns.
C18_OrgsOnlyGrow ==
    [][/\ orgs \subseteq orgs'
       /\ orgs' # orgs =>
            /\ cur.op = "createOrg" /\ cur.pc = "createOrg:insert"
            /\ cur'.pc = "done" /\ cur'.result = "OK"
            /\ orgs' = orgs \cup {cur'.ret}]_vars

\* Reached: a removeUser that has deleted a user of an organization, after
\* a createOrg had added a second organization; both rows are there.
C18_Witness ==
    /\ Ended("removeUser") /\ cur.result = "OK"
    /\ Cardinality(orgs) = 2 /\ orgs = pre.orgs
    /\ \E u \in pre.users : /\ u.id = cur.input.userId
                             /\ \E o \in orgs : o.id = u.orgId

\* The message of the INTERNAL_SERVER_ERROR each handler's catch block throws.
GenericMessage(op) ==
    CASE op = "getUsers" -> "Failed to fetch users"
      [] op = "getOrgs" -> "Failed to fetch organizations"
      [] op = "createOrg" -> "Failed to create organization"
      [] op = "createUser" -> "Failed to create user"
      [] op = "inviteUser" -> "Failed to send invitation"
      [] op = "removeUser" -> "Failed to remove user"
      [] op = "getUniqueLoginsPerDay" -> "Failed to fetch unique logins per day"

\* C19: a call that fails ends UNAUTHORIZED, NOT_FOUND, CONFLICT, FORBIDDEN
\* or INTERNAL_SERVER_ERROR; and when a collaborator (a store read or write,
\* hashPassword, sendEmail) has failed during an admin's call, the call ends
\* INTERNAL_SERVER_ERROR with the handler's fixed message, not with the
\* collaborator's error.
C19_FailureTaxonomy ==
    cur.pc = "done" =>
        /\ cur.result \in {"OK", "UNAUTHORIZED", "NOT_FOUND", "CONFLICT",
                           "FORBIDDEN", "INTERNAL_SERVER_ERROR"}
        /\ (AdminCaller(cur) /\ cur.error = CollabError) =>
              /\ cur.result = "INTERNAL_SERVER_ERROR"
              /\ cur.message = GenericMessage(cur.op)
              /\ cur.message # CollabError.message
              /\ cur.ret = Null

\* Reached: removeUser whose last delete the store has rejected, after the
\* user's accounts were deleted.
C19_Witness ==
    /\ Ended("removeUser") /\ AdminCaller(cur)
    /\ cur.error = CollabError
    /\ cur.result = "INTERNAL_SERVER_ERROR"
    /\ cur.message = "Failed to remove user"
    /\ accounts # pre.accounts /\ users = pre.users

\* The day of a login event, and the days on which somebody logged in.
DayOf(e) == e.created_at \div (24 * 60 * 60)
DaysWithLogins == {DayOf(e) : e \in loginEvents}

\* C20: getUniqueLoginsPerDay called by an admin returns at most 30
\* {date, unique_logins} rows, newest date first and no date twice; their
\* dates are the 30 most recent dates that have login events (all of them
\* when there are fewer); the count of each row is the number of distinct
\* user ids among the login events of its date; and the store is as the
\* call found it.
C20_LoginsPerDay ==
    (/\ Ended("getUniqueLoginsPerDay") /\ AdminCaller(cur) /\ NoCollabFailure)
        => /\ cur.result = "OK"
           /\ LET rows == cur.ret
                  dates == {rows[i].date : i \in 1..Len(rows)}
              IN  /\ Len(rows) <= 30
                  /\ \A i \in 1..Len(rows), j \in 1..Len(rows) :
                        i < j => rows[i].date > rows[j].date
                  /\ dates \subseteq DaysWithLogins
                  /\ \A d \in DaysWithLogins \ dates :
                        /\ Len(rows) = 30
                        /\ \A r \in dates : d < r
                  /\ \A i \in 1..Len(rows) :
                        rows[i].unique_logins =
                            Cardinality({e.userId : e \in
                                {x \in loginEvents : DayOf(x) = rows[i].date}})
           /\ Store = pre

\* Reached: the report over a log of more than 30 days with logins, some of
\* them days on which a user logged in twice: 30 rows, the oldest days left
\* out.
C20_Witness ==
    /\ Ended("getUniqueLoginsPerDay") /\ AdminCaller(cur)
    /\ cur.result = "OK"
    /\ Len(cur.ret) = 30
    /\ Cardinality(DaysWithLogins) > 30
    /\ \E i \in 1..30 :
          /\ cur.ret[i].unique_logins = 2
          /\ Cardinality({x \in loginEvents : DayOf(x) = cur.ret[i].date}) = 3

\* C21: when sendEmail fails in inviteUser, the invitation row being already
\* inserted, the call ends INTERNAL_SERVER_ERROR and the invitation row of
\* this call stays in the store: nothing is rolled back.
C21_DispatchFailureNoRollback ==
    [][(/\ cur.pc = "inviteUser:sendEmail"
        /\ cur'.pc = "done" /\ cur'.error = CollabError)
          => /\ cur'.result = "INTERNAL_SERVER_ERROR"
             /\ cur'.message = "Failed to send invitation"
             /\ verifications' = verifications
             /\ sent' = sent
             /\ \E v \in verifications' \ pre.verifications :
                   v.identifier = cur.input.email]_vars

\* Reached: inviteUser ended by a failure of sendEmail; the store has the
\* invitation and no email was sent.
C21_Witness ==
    /\ Ended("inviteUser") /\ AdminCaller(cur)
    /\ cur.error = CollabError /\ cur.result = "INTERNAL_SERVER_ERROR"
    /\ sent = pre.sent
    /\ \E v \in verifications \ pre.verifications :
          v.identifier = cur.input.email

\* C22: when the insert into accounts fails in createUser, the user row
\* being already inserted, the call ends INTERNAL_SERVER_ERROR without
\* returning the user, and nothing is compensated: the user row of this call
\* stays in the store and has no credential account.
C22_AccountInsertFailureNoRollback ==
    [][(/\ cur.pc = "createUser:insertAccount"
        /\ cur'.pc = "done" /\ cur'.error = CollabError)
          => /\ cur'.result = "INTERNAL_SERVER_ERROR"
             /\ cur'.message = "Failed to create user"
             /\ cur'.ret = Null
             /\ users' = users /\ accounts' = accounts
             /\ \E u \in users' \ pre.users :
                   /\ u.email = cur.input.email
                   /\ CredentialsOf(accounts', u.id) = {}]_vars

\* Reached: createUser ended by a failure of the insert into accounts; the
\* store has the new user row and no account of that user.
C22_Witness ==
    /\ Ended("createUser") /\ AdminCaller(cur)
    /\ cur.error = CollabError /\ cur.result = "INTERNAL_SERVER_ERROR"
    /\ accounts = pre.accounts
    /\ \E u \in users \ pre.users :
          /\ u.email = cur.input.email
          /\ \A a \in accounts : a.userId # u.id

\* The rows of a table that do not reference user id.
RowsNotOf(rows, id) == {r \in rows : r.userId # id}

\* C23: when a delete of removeUser fails, the call ends
\* INTERNAL_SERVER_ERROR, the deletes made before it stay made and the
\* deletes after it are not made: a failure of the first delete leaves the
\* store as the call found it, a failure of the second leaves the
\* memberships removed only, and a failure of the third leaves the user row
\* in the store with its memberships and accounts removed.
C23_PartialRemoval ==
    [][(/\ cur.op = "removeUser" /\ InFlight(cur)
        /\ cur'.pc = "done" /\ cur'.error = CollabError
        /\ cur.pc # "removeUser:findUser")
          => LET id == cur.input.userId
                 membersGone == cur.pc \in {"removeUser:deleteAccounts",
                                            "removeUser:deleteUser"}
                 accountsGone == cur.pc = "removeUser:deleteUser"
             IN  /\ cur'.result = "INTERNAL_SERVER_ERROR"
                 /\ cur'.message = "Failed to remove user"
                 /\ users' = pre.users
                 /\ \E u \in users' : u.id = id
                 /\ communityMembers' =
                       IF membersGone THEN RowsNotOf(pre.communityMembers, id)
                       ELSE pre.communityMembers
                 /\ accounts' =
                       IF accountsGone THEN RowsNotOf(pre.accounts, id)
                       ELSE pre.accounts]_vars

\* Reached: removeUser ended by a failure of the delete of the user row;
\* the user row is there, its memberships and accounts are gone.
C23_Witness ==
    /\ Ended("removeUser") /\ AdminCaller(cur)
    /\ cur.error = CollabError /\ cur.result = "INTERNAL_SERVER_ERROR"
    /\ \E u \in users : u.id = cur.input.userId
    /\ \E m \in pre.communityMembers : m.userId = cur.input.userId
    /\ \E a \in pre.accounts : a.userId = cur.input.userId
    /\ \A m \in communityMembers : m.userId # cur.input.userId
    /\ \A a \in accounts : a.userId # cur.input.userId

\* The memberships and accounts that reference user id.
MembersOf(id) == {m \in communityMembers : m.userId = id}
AccountsOf(id) == {a \in accounts : a.userId = id}

\* A membership or account of the user removeUser was called for has that
\* user's row beside it.
TargetCoexists ==
    (MembersOf(cur.input.userId) # {} \/ AccountsOf(cur.input.userId) # {})
        => \E u \in users : u.id = cur.input.userId

\* C24: one removeUser call, nothing interleaved, deletes the memberships,
\* then the accounts, then the user row: the step that deletes accounts
\* finds no membership of the user, the step that deletes the user row finds
\* no membership and no account of the user, and in every state of the call
\* a membership or account that references the user coexists with the
\* user's row.
C24_RemoveUserOrder ==
    [][cur'.op = "removeUser" =>
        /\ accounts' # accounts => MembersOf(cur.input.userId) = {}
        /\ users' # users => /\ MembersOf(cur.input.userId) = {}
                             /\ AccountsOf(cur.input.userId) = {}
        /\ TargetCoexists']_vars

\* Reached: removeUser between its second and third delete: the user row
\* is there, the memberships and accounts it had are gone.
C24_Witness ==
    /\ cur.op = "removeUser" /\ cur.pc = "removeUser:deleteUser"
    /\ \E u \in users : u.id = cur.input.userId
    /\ \E m \in pre.communityMembers : m.userId = cur.input.userId
    /\ \E a \in pre.accounts : a.userId = cur.input.userId
    /\ MembersOf(cur.input.userId) = {} /\ AccountsOf(cur.input.userId) = {}

\* C25: one createUser call inserts the user row before the account row,
\* and inserts the user row only when the organization exists, no user has
\* the email and the password has been hashed; when hashPassword fails the
\* call leaves no user row and no account row.
C25_CreateUserOrder ==
    [][cur'.op = "createUser" =>
        /\ users' # users =>
              /\ \E o \in orgs : o.id = cur.input.orgId
              /\ \A u \in users : u.email # cur.input.email
              /\ cur.hashedPassword \in STRING
              /\ accounts = pre.accounts /\ accounts' = accounts
        /\ accounts' # accounts =>
              \A a \in accounts' \ accounts :
                  \E u \in users \ pre.users :
                      u.id = a.userId /\ u.email = cur.input.email
        /\ (/\ cur.pc = "createUser:hash"
            /\ cur'.pc = "done" /\ cur'.error = CollabError)
              => /\ cur'.result = "INTERNAL_SERVER_ERROR"
                 /\ users' = pre.users /\ accounts' = pre.accounts]_vars

\* Reached: createUser between its two inserts: the organization and email
\* checks have passed, the password is hashed, the user row is in the store
\* and its account row is not yet.
C25_Witness ==
    /\ cur.op = "createUser" /\ cur.pc = "createUser:insertAccount"
    /\ cur.hashedPassword \in STRING
    /\ \E o \in orgs : o.id = cur.input.orgId
    /\ \E u \in users \ pre.users :
          u.email = cur.input.email /\ AccountsOf(u.id) = {}
    /\ accounts = pre.accounts

\* C26: the store starts with a user row of role 'admin' and every session
\* is that of a user who existed when it was issued; then under any
\* interleaving of removeUser calls by admins every state has a user row of
\* role 'admin'.
C26_AdminRemains ==
    \E u \in users : u.role = "admin"

\* C27: under any interleaving of createUser and removeUser calls, in every
\* state in which no call is in flight, every credential account row
\* references a user row that exists.
C27_NoOrphanAccount ==
    (\A p \in Procs : ~InFlight(procs[p]))
        => \A a \in accounts :
              a.providerId = "credential" => \E u \in users : u.id = a.userId

\* C28: under any interleaving, every user row that createUser has inserted
\* has the orgId of an organization row, and every invitation row carries
\* in its value the orgId of an organization row.
C28_OrgIdsReferenceOrgs ==
    /\ \A u \in users :
          u.id >= FirstId => \E o \in orgs : o.id = u.orgId
    /\ \A v \in verifications : \E o \in orgs : o.id = v.value[3]

\* Reached: a user row inserted by createUser and an invitation row, made
\* by two calls that overlapped.
C28_Witness ==
    /\ \E u \in users : u.id >= FirstId
    /\ verifications # {}
    /\ procs[1].pc = "done" /\ procs[2].pc = "done"

\* The invitations and the emails of an address.
InvitesOf(rows, email) == {v \in rows : v.identifier = email}
SentTo(msgs, email) == {m \in msgs : m.to = email}

\* An inviteUser by an admin, no collaborator failing, for an existing
\* organization and an email no user has, made after an inviteUser for the
\* same email had returned (its email was sent): it returns too, and adds
\* one more invitation of the email, with an id and a token no earlier
\* invitation has, and one more email to the address.
SecondInviteSucceeds ==
    (/\ Ended("inviteUser") /\ AdminCaller(cur) /\ NoCollabFailure
     /\ \E o \in pre.orgs : o.id = cur.input.orgId
     /\ \A u \in pre.users : u.email # cur.input.email
     /\ SentTo(pre.sent, cur.input.email) # {}
     /\ InvitesOf(pre.verifications, cur.input.email) # {})
        => /\ cur.result = "OK"
           /\ pre.verifications \subseteq verifications
           /\ Cardinality(InvitesOf(verifications, cur.input.email)) =
                 Cardinality(InvitesOf(pre.verifications, cur.input.email)) + 1
           /\ Cardinality(SentTo(sent, cur.input.email)) =
                 Cardinality(SentTo(pre.sent, cur.input.email)) + 1
           /\ \A v \in verifications \ pre.verifications :
                 \A w \in pre.verifications :
                     v.id # w.id /\ v.value[2] # w.value[2]

\* C29: inviteUser does not look at the invitations there are: a second
\* inviteUser by an admin for the same email and an existing organization,
\* no user of that email created in between, succeeds like the first, the
\* store then holds two invitation rows of the email, each with its own id
\* and token, and two emails have been sent; and no step of any handler
\* deletes or modifies an invitation row.
C29_InvitesAccumulate ==
    [][verifications \subseteq verifications' /\ SecondInviteSucceeds']_vars

\* Reached: the second inviteUser for an email has returned; two invitation
\* rows of the email and two emails.
C29_Witness ==
    /\ Ended("inviteUser") /\ AdminCaller(cur) /\ cur.result = "OK"
    /\ Cardinality(InvitesOf(pre.verifications, cur.input.email)) = 1
    /\ Cardinality(InvitesOf(verifications, cur.input.email)) = 2
    /\ Cardinality({v.id : v \in InvitesOf(verifications, cur.input.email)}) = 2
    /\ Cardinality({v.value[2] : v \in InvitesOf(verifications, cur.input.email)}) = 2
    /\ Cardinality(SentTo(sent, cur.input.email)) = 2

\* The user rows other than the row of id.
UsersNot(rows, id) == {u \in rows : u.id # id}

\* C30: every step of a handler changes its own tables and rows only:
\* getUsers, getOrgs and getUniqueLoginsPerDay change nothing; createOrg
\* changes orgs only; createUser changes users and accounts only;
\* inviteUser changes verifications and the sent emails only, so it adds no
\* user; removeUser of user u changes only the memberships, accounts and
\* user row of u: the rows of the other users, the organizations and the
\* invitations stay as they are.
C30_Frame ==
    [][LET op == cur'.op
       IN  /\ loginEvents' = loginEvents
           /\ op \in {"getUsers", "getOrgs", "getUniqueLoginsPerDay"} =>
                 /\ users' = users /\ orgs' = orgs /\ accounts' = accounts
                 /\ verifications' = verifications /\ sent' = sent
                 /\ communityMembers' = communityMembers
           /\ op = "createOrg" =>
                 /\ users' = users /\ accounts' = accounts
                 /\ verifications' = verifications /\ sent' = sent
                 /\ communityMembers' = communityMembers
           /\ op = "createUser" =>
                 /\ orgs' = orgs
                 /\ verifications' = verifications /\ sent' = sent
                 /\ communityMembers' = communityMembers
           /\ op = "inviteUser" =>
                 /\ users' = users /\ orgs' = orgs /\ accounts' = accounts
                 /\ communityMembers' = communityMembers
           /\ op = "removeUser" =>
                 /\ orgs' = orgs
                 /\ verifications' = verifications /\ sent' = sent
                 /\ UsersNot(users', cur'.input.userId) =
                       UsersNot(users, cur'.input.userId)
                 /\ RowsNotOf(accounts', cur'.input.userId) =
                       RowsNotOf(accounts, cur'.input.userId)
                 /\ RowsNotOf(communityMembers', cur'.input.userId) =
                       RowsNotOf(communityMembers, cur'.input.userId)]_vars

\* Reached: removeUser has returned after a createOrg or an inviteUser had
\* changed the store: the rows of the removed user are gone, the rows of
\* the other users, the organizations and the invitations are as before.
C30_Witness ==
    /\ Ended("removeUser") /\ cur.result = "OK"
    /\ users # pre.users /\ users = UsersNot(pre.users, cur.input.userId)
    /\ accounts # pre.accounts
    /\ accounts = RowsNotOf(pre.accounts, cur.input.userId)
    /\ communityMembers = RowsNotOf(pre.communityMembers, cur.input.userId)
    /\ Cardinality(users) >= 2
    /\ orgs = pre.orgs /\ verifications = pre.verifications
    /\ (Cardinality(orgs) = 2 \/ verifications # {})

=============================================================================
